---------------------------- MODULE Spec2Model ----------------------------
(***************************************************************************)
(* Model of dendron's versioned configuration engine:                      *)
(*   packages/engine-server/src/config.ts        (DConfig)                 *)
(*   packages/engine-server/src/topics/hooks.ts  (HookUtils)               *)
(*                                                                         *)
(* JavaScript values are tagged records, so that values of different       *)
(* JavaScript types can be compared with each other.  An object is a       *)
(* function from its own property names to values; a property that is      *)
(* not in the domain reads as undefined.                                   *)
(***************************************************************************)
EXTENDS Integers, Sequences, FiniteSets, TLC

VARIABLES
  file,     \* the document stored at <root>/dendron.yml, Undefined when there is no file
  config,   \* the config object the caller holds, Undefined before one is obtained
  last,     \* the last completed call: operation, arguments, state before, result
  site,     \* the call of cleanSiteConfig: input, environment, outcome
  backups   \* the backup files beside dendron.yml: file name -> document

vars == <<file, config, last, site, backups>>

---------------------------------------------------------------------------
(* JavaScript values *)

Undefined == [t |-> "undefined"]
Null      == [t |-> "null"]
Bool(b)   == [t |-> "boolean", b |-> b]
Num(n)    == [t |-> "number", n |-> n]
Str(s)    == [t |-> "string", s |-> s]
Arr(a)    == [t |-> "array", a |-> a]
Obj(o)    == [t |-> "object", o |-> o]

EmptyObj == Obj([k \in {} |-> Undefined])

IsUndefined(v) == v.t = "undefined"

\* JavaScript truthiness, as used by `if (value)`, `a || b` and `!a`.
Truthy(v) ==
  CASE v.t = "undefined" -> FALSE
    [] v.t = "null"      -> FALSE
    [] v.t = "boolean"   -> v.b
    [] v.t = "number"    -> v.n # 0
    [] v.t = "string"    -> v.s # ""
    [] OTHER             -> TRUE

\* obj[key]: undefined when obj is no object or has no such property.
GetKey(v, k) ==
  IF v.t = "object" /\ k \in DOMAIN v.o THEN v.o[k] ELSE Undefined

\* lodash _.get(object, path) with the path given as its sequence of keys:
\* the walk stops at the first null or undefined.
RECURSIVE Get(_, _)
Get(v, path) ==
  IF path = <<>> THEN v
  ELSE IF v.t \in {"undefined", "null"} THEN Undefined
  ELSE Get(GetKey(v, Head(path)), Tail(path))

\* obj[key] = val on an object.
SetKey(v, k, val) ==
  Obj([x \in DOMAIN v.o \cup {k} |-> IF x = k THEN val ELSE v.o[x]])

\* The object spread { ...a, ...b }: b's properties override a's.  Spreading
\* undefined or null contributes nothing.
Props(v) == IF v.t = "object" THEN v.o ELSE [k \in {} |-> Undefined]

Spread(a, b) ==
  Obj([k \in DOMAIN Props(a) \cup DOMAIN Props(b) |->
         IF k \in DOMAIN Props(b) THEN Props(b)[k] ELSE Props(a)[k]])

\* lodash _.defaults(object, source): source's properties are assigned to
\* object where object's own value is undefined; object is mutated.
Defaults(object, source) ==
  Obj([k \in DOMAIN object.o \cup DOMAIN source.o |->
         IF k \in DOMAIN object.o /\ ~IsUndefined(object.o[k])
         THEN object.o[k] ELSE source.o[k]])

---------------------------------------------------------------------------
(* Default Generator *)

\* The `commands` namespace defaults of @dendronhq/common-all.
genDefaultCommandConfig ==
  Obj([lookup |-> Obj([note |-> Obj([selectionMode |-> Str("extract"),
                                     confirmVaultOnCreate |-> Bool(FALSE),
                                     leaveTrace |-> Bool(FALSE)])]),
       randomNote |-> EmptyObj,
       insertNote |-> Obj([initialValue |-> Str("templates")]),
       insertNoteLink |-> Obj([aliasMode |-> Str("none"),
                               enableMultiSelect |-> Bool(FALSE)]),
       insertNoteIndex |-> Obj([enableMarker |-> Bool(FALSE)])])

\* The `workspace` namespace defaults of @dendronhq/common-all.
genDefaultWorkspaceConfig ==
  Obj([vaults |-> Arr(<<>>),
       journal |-> Obj([dailyDomain |-> Str("daily"),
                        name |-> Str("journal"),
                        dateFormat |-> Str("y.MM.dd"),
                        addBehavior |-> Str("childOfDomain"),
                        firstDayOfWeek |-> Num(1)])])

common ==
  Obj([useFMTitle |-> Bool(TRUE),
       useNoteTitleForLink |-> Bool(TRUE),
       noLegacyNoteRef |-> Bool(TRUE),
       mermaid |-> Bool(TRUE),
       useKatex |-> Bool(TRUE),
       usePrettyRefs |-> Bool(TRUE),
       dev |-> Obj([enablePreviewV2 |-> Bool(TRUE)]),
       site |-> Obj([copyAssets |-> Bool(TRUE),
                     siteHierarchies |-> Arr(<<Str("root")>>),
                     siteRootDir |-> Str("docs"),
                     usePrettyRefs |-> Bool(TRUE),
                     title |-> Str("Dendron"),
                     description |-> Str("Personal knowledge space"),
                     siteLastModified |-> Bool(TRUE),
                     gh_edit_branch |-> Str("main")])])

omittedFromV2 ==
  Obj([lookupConfirmVaultOnCreate |-> Bool(FALSE),
       lookup |-> Obj([note |-> Obj([selectionType |-> Str("selectionExtract"),
                                     leaveTrace |-> Bool(FALSE)])])])

omittedFromV3 ==
  Obj([vaults |-> Arr(<<>>),
       journal |-> Obj([dailyDomain |-> Str("daily"),
                        name |-> Str("journal"),
                        dateFormat |-> Str("y.MM.dd"),
                        addBehavior |-> Str("childOfDomain"),
                        firstDayOfWeek |-> Num(1)]),
       scratch |-> Obj([name |-> Str("scratch"),
                        dateFormat |-> Str("y.MM.dd.HHmmss"),
                        addBehavior |-> Str("asOwnDomain")]),
       noAutoCreateOnDefinition |-> Bool(TRUE),
       noXVaultWikiLink |-> Bool(TRUE),
       autoFoldFrontmatter |-> Bool(TRUE),
       maxPreviewsCached |-> Num(10)])

\* A plausible slip: the version-2 case also spreads omittedFromV2.
genDefaultConfigV2KeepsLegacy(version) ==
  LET v == IF IsUndefined(version) THEN Num(1) ELSE version IN
  CASE v = Num(3) ->
         Spread(Spread(Obj([version |-> Num(3)]), common),
                Obj([commands |-> genDefaultCommandConfig,
                     workspace |-> genDefaultWorkspaceConfig]))
    [] v = Num(2) ->
         Spread(Spread(Spread(Spread(Obj([version |-> Num(2)]), common),
                              omittedFromV3), omittedFromV2),
                Obj([commands |-> genDefaultCommandConfig]))
    [] OTHER ->
         Spread(Spread(Spread(Obj([version |-> Num(1)]), common),
                       omittedFromV3), omittedFromV2)

\* DConfig.genDefaultConfig(version?)
genDefaultConfig(version) ==
  LET v == IF IsUndefined(version) THEN Num(1) ELSE version IN
  CASE v = Num(3) ->
         Spread(Spread(Obj([version |-> Num(3)]), common),
                Obj([commands |-> genDefaultCommandConfig,
                     workspace |-> genDefaultWorkspaceConfig]))
    [] v = Num(2) ->
         Spread(Spread(Spread(Obj([version |-> Num(2)]), common),
                       omittedFromV3),
                Obj([commands |-> genDefaultCommandConfig]))
    [] OTHER ->
         Spread(Spread(Spread(Obj([version |-> Num(1)]), common),
                       omittedFromV3), omittedFromV2)

---------------------------------------------------------------------------
(* Legacy Path Registry.  A canonical dotted path is written as its sequence *)
(* of keys, the form lodash resolves it to.                                  *)

requiredPathsMap ==
  (<<"commands", "insertNote", "initialValue">> :> "defaultInsertHierarchy") @@
  (<<"commands", "insertNoteLink">>  :> "insertNoteLink") @@
  (<<"commands", "insertNoteIndex">> :> "insertNoteIndex") @@
  (<<"commands", "randomNote">>      :> "randomNote") @@
  (<<"commands", "lookup">>          :> "lookup") @@
  (<<"workspace", "journal">>        :> "journal") @@
  (<<"workspace", "vaults">>         :> "vaults")

\* DConfig.isRequired(path)
isRequired(path) == path \in DOMAIN requiredPathsMap

CURRENT_CONFIG_VERSION == 3

\* DConfig.isCurrentConfig(config)
isCurrentConfig(cfg) == GetKey(cfg, "version") = Num(CURRENT_CONFIG_VERSION)

---------------------------------------------------------------------------
(* Config Resolver.  A call that mutates its argument is modelled by a     *)
(* record of the returned value and the argument object after the call.    *)

\* DConfig.getProp(config, key): _.defaults mutates config, then reads key.
getProp(cfg, key) ==
  LET cConfig == Defaults(cfg, genDefaultConfig(Undefined)) IN
  [ret |-> GetKey(cConfig, key), config |-> cConfig]

\* DConfig.getLegacyConfig(config, path): Map.get of a path that is not in the
\* registry is undefined, which as a property key reads the property "undefined".
getLegacyConfig(cfg, path) ==
  LET mappedLegacyConfigKey ==
        IF path \in DOMAIN requiredPathsMap THEN requiredPathsMap[path]
        ELSE "undefined" IN
  getProp(cfg, mappedLegacyConfigKey)

\* A plausible slip: the version-2 branch ignores whether the path is required.
getConfigV2AlwaysDefault(cfg, path) ==
  LET value == Get(cfg, path) IN
  IF Truthy(value) THEN [ret |-> value, config |-> cfg]
  ELSE IF IsUndefined(value) /\ ~isCurrentConfig(cfg) THEN
    IF GetKey(cfg, "version") = Num(2) THEN
      [ret |-> Get(genDefaultConfig(Num(2)), path), config |-> cfg]
    ELSE getLegacyConfig(cfg, path)
  ELSE IF IsUndefined(value) /\ isRequired(path) THEN
    [ret |-> Get(genDefaultConfig(Num(3)), path), config |-> cfg]
  ELSE [ret |-> Undefined, config |-> cfg]

\* A plausible slip: the legacy branch reads the default config only.
getConfigLegacyDefaultOnly(cfg, path) ==
  LET value == Get(cfg, path) IN
  IF Truthy(value) THEN [ret |-> value, config |-> cfg]
  ELSE IF IsUndefined(value) /\ ~isCurrentConfig(cfg) THEN
    IF GetKey(cfg, "version") = Num(2) THEN
      IF isRequired(path)
      THEN [ret |-> Get(genDefaultConfig(Num(2)), path), config |-> cfg]
      ELSE [ret |-> Undefined, config |-> cfg]
    ELSE [ret |-> GetKey(genDefaultConfig(Num(1)),
                         IF isRequired(path) THEN requiredPathsMap[path]
                         ELSE "undefined"),
          config |-> cfg]
  ELSE IF IsUndefined(value) /\ isRequired(path) THEN
    [ret |-> Get(genDefaultConfig(Num(3)), path), config |-> cfg]
  ELSE [ret |-> Undefined, config |-> cfg]

\* DConfig.getConfig(config, path)
getConfig(cfg, path) ==
  LET value == Get(cfg, path) IN
  IF Truthy(value) THEN [ret |-> value, config |-> cfg]
  ELSE IF IsUndefined(value) /\ ~isCurrentConfig(cfg) THEN
    IF GetKey(cfg, "version") = Num(2) THEN
      IF isRequired(path)
      THEN [ret |-> Get(genDefaultConfig(Num(2)), path), config |-> cfg]
      ELSE [ret |-> Undefined, config |-> cfg]
    ELSE getLegacyConfig(cfg, path)
  ELSE IF IsUndefined(value) /\ isRequired(path) THEN
    [ret |-> Get(genDefaultConfig(Num(3)), path), config |-> cfg]
  ELSE [ret |-> Undefined, config |-> cfg]

---------------------------------------------------------------------------
(* Hook-List Editor *)

\* The hook types of DHookType: onCreate is the only one.
DHookType == {"onCreate"}

\* `config.workspace!.hooks` throws a TypeError when a version-3 config has no
\* workspace object.
hooksThrows(cfg) ==
  /\ GetKey(cfg, "version") = Num(3)
  /\ GetKey(cfg, "workspace").t \in {"undefined", "null"}

\* config.version === 3 ? config.workspace!.hooks : config.hooks
hooksConfig(cfg) ==
  IF GetKey(cfg, "version") = Num(3)
  THEN GetKey(GetKey(cfg, "workspace"), "hooks")
  ELSE GetKey(cfg, "hooks")

\* _.get(hooksConfig, hookType, []): the default stands in for undefined only.
hookList(cfg, hookType) ==
  LET found == Get(hooksConfig(cfg), <<hookType>>) IN
  IF IsUndefined(found) THEN Arr(<<>>) ELSE found

\* The container after `hooks = hooks || { onCreate: [] }; hooks.onCreate = onCreate`,
\* written back into the config of that version.
writeOnCreate(cfg, onCreate) ==
  IF GetKey(cfg, "version") = Num(3) THEN
    LET ws    == GetKey(cfg, "workspace")
        hooks == IF Truthy(GetKey(ws, "hooks")) THEN GetKey(ws, "hooks")
                 ELSE Obj([onCreate |-> Arr(<<>>)])
    IN SetKey(cfg, "workspace", SetKey(ws, "hooks", SetKey(hooks, "onCreate", onCreate)))
  ELSE
    LET hooks == IF Truthy(GetKey(cfg, "hooks")) THEN GetKey(cfg, "hooks")
                 ELSE Obj([onCreate |-> Arr(<<>>)])
    IN SetKey(cfg, "hooks", SetKey(hooks, "onCreate", onCreate))

\* A plausible slip: the new entry is put in front of the list.
addToConfigPrepends(cfg, hookType, hookEntry) ==
  IF hooksThrows(cfg) THEN [threw |-> TRUE, config |-> cfg]
  ELSE [threw |-> FALSE,
        config |-> writeOnCreate(cfg, Arr(<<hookEntry>> \o hookList(cfg, hookType).a))]

\* HookUtils.addToConfig({config, hookType, hookEntry})
addToConfig(cfg, hookType, hookEntry) ==
  IF hooksThrows(cfg) THEN [threw |-> TRUE, config |-> cfg]
  ELSE [threw |-> FALSE,
        config |-> writeOnCreate(cfg, Arr(Append(hookList(cfg, hookType).a, hookEntry)))]

\* The lodash predicate { id: hookId }.
matchesId(entry, hookId) == GetKey(entry, "id") = hookId

\* _.remove(array, { id: hookId }) returns the REMOVED elements (and leaves the
\* others in the array it was given).
removed(list, hookId) == SelectSeq(list, LAMBDA e : matchesId(e, hookId))

\* _.findIndex(array, { id: hookId }): 0-based, -1 when there is none.
findIndex(list, hookId) ==
  IF \E i \in 1..Len(list) : matchesId(list[i], hookId)
  THEN (CHOOSE i \in 1..Len(list) :
          /\ matchesId(list[i], hookId)
          /\ \A j \in 1..(i - 1) : ~matchesId(list[j], hookId)) - 1
  ELSE -1

\* Array.prototype.splice(start, 1): a negative start counts from the end.
splice1(list, start) ==
  LET from == IF start < 0
              THEN (IF Len(list) + start < 0 THEN 0 ELSE Len(list) + start)
              ELSE start
  IN IF from >= Len(list) THEN list
     ELSE SubSeq(list, 1, from) \o SubSeq(list, from + 2, Len(list))

\* HookUtils.removeFromConfig({config, hookType, hookId})
removeFromConfig(cfg, hookType, hookId) ==
  IF hooksThrows(cfg) THEN [threw |-> TRUE, config |-> cfg]
  ELSE
    LET onCreate0 == removed(hookList(cfg, hookType).a, hookId)
        idx       == findIndex(onCreate0, hookId)
        onCreate  == splice1(onCreate0, idx)
    IN [threw |-> FALSE, config |-> writeOnCreate(cfg, Arr(onCreate))]

---------------------------------------------------------------------------
(* Config Store *)

\* writeYAML of @dendronhq/common-server: the document holds the data's defined
\* properties; a property whose value is undefined has no YAML form.
RECURSIVE writeYAML(_)
writeYAML(data) ==
  CASE data.t = "object" ->
         Obj([k \in {x \in DOMAIN data.o : ~IsUndefined(data.o[x])} |->
                writeYAML(data.o[k])])
    [] data.t = "array" ->
         Arr([i \in 1..Len(data.a) |-> writeYAML(data.a[i])])
    [] OTHER -> data

\* readYAML of @dendronhq/common-server: the object the document describes.
readYAML(doc) == doc

\* A plausible slip: the provisional config is spread over the file's.
getOrCreateDefaultsWin(f, defaults) ==
  LET provisional == Spread(defaults, genDefaultConfig(Undefined)) IN
  IF IsUndefined(f)
  THEN [ret |-> provisional, file |-> writeYAML(provisional)]
  ELSE [ret |-> Spread(readYAML(f), provisional), file |-> f]

\* DConfig.getOrCreate(dendronRoot, defaults?) on a root whose file is f.
getOrCreate(f, defaults) ==
  LET provisional == Spread(defaults, genDefaultConfig(Undefined)) IN
  IF IsUndefined(f)
  THEN [ret |-> provisional, file |-> writeYAML(provisional)]
  ELSE [ret |-> Spread(provisional, readYAML(f)), file |-> f]

\* DConfig.getRaw(wsRoot)
getRaw(f) == readYAML(f)

\* DConfig.writeConfig({wsRoot, config}): the file after the call.
writeConfig(cfg) == writeYAML(cfg)

\* A local time, as Time.now() gives it.
DateTime(y, mo, d, h, mi, sec, ms) ==
  [year |-> y, month |-> mo, day |-> d, hour |-> h, minute |-> mi,
   second |-> sec, millisecond |-> ms]

NoTime == DateTime(0, 0, 0, 0, 0, 0, 0)

\* A number's decimal digits, padded with zeros on the left to `width` digits.
RECURSIVE padStart(_, _)
padStart(str, width) ==
  IF Len(str) >= width THEN str ELSE padStart("0" \o str, width)

\* One token of a Luxon format: yyyy, MM, dd, HH, mm and ss are zero-padded,
\* SSS is the millisecond padded to three digits, S is the millisecond with no
\* padding; any other text stands for itself.
formatToken(dt, token) ==
  CASE token = "yyyy" -> padStart(ToString(dt.year), 4)
    [] token = "MM"   -> padStart(ToString(dt.month), 2)
    [] token = "dd"   -> padStart(ToString(dt.day), 2)
    [] token = "HH"   -> padStart(ToString(dt.hour), 2)
    [] token = "mm"   -> padStart(ToString(dt.minute), 2)
    [] token = "ss"   -> padStart(ToString(dt.second), 2)
    [] token = "SSS"  -> padStart(ToString(dt.millisecond), 3)
    [] token = "S"    -> ToString(dt.millisecond)
    [] OTHER          -> token

\* DateTime.toFormat(fmt), the format given as its sequence of tokens.
RECURSIVE toFormat(_, _)
toFormat(dt, fmt) ==
  IF fmt = <<>> THEN ""
  ELSE formatToken(dt, Head(fmt)) \o toFormat(dt, Tail(fmt))

\* The format "yyyy.MM.dd.HHmmssS" of createBackup.
BackupFormat == <<"yyyy", ".", "MM", ".", "dd", ".", "HH", "mm", "ss", "S">>

\* path.join(dir, name)
pathJoin(dir, name) == dir \o "/" \o name

\* DConfig.createBackup(wsRoot, infix) at local time `now`, in a directory whose
\* config file is f and whose backups are b: fs.copyFileSync throws when there
\* is no config file, and overwrites a backup of the same name.
createBackup(f, b, wsRoot, infix, now) ==
  LET today      == toFormat(now, BackupFormat)
      prefix     == "dendron." \o today \o "."
      suffix     == "yml"
      maybeInfix == IF infix # "" THEN infix \o "." ELSE ""
      backupName == prefix \o maybeInfix \o suffix
      backupPath == pathJoin(wsRoot, backupName)
  IN IF IsUndefined(f)
     THEN [threw |-> TRUE, ret |-> Undefined, name |-> backupName, backups |-> b]
     ELSE [threw |-> FALSE, ret |-> Str(backupPath), name |-> backupName,
           backups |-> [n \in DOMAIN b \cup {backupName} |->
                          IF n = backupName THEN f ELSE b[n]]]

---------------------------------------------------------------------------
(* Site-Config Normalizer *)

\* lodash _.size
size(v) ==
  CASE v.t = "array"  -> Len(v.a)
    [] v.t = "object" -> Cardinality(DOMAIN v.o)
    [] OTHER          -> 0

\* DConfig.getSiteIndex(sconfig): siteIndex || siteHierarchies[0]
getSiteIndex(sconfig) ==
  LET siteIndex       == GetKey(sconfig, "siteIndex")
      siteHierarchies == GetKey(sconfig, "siteHierarchies")
  IN IF Truthy(siteIndex) THEN siteIndex
     ELSE IF siteHierarchies.t = "array" /\ Len(siteHierarchies.a) >= 1
          THEN siteHierarchies.a[1] ELSE Undefined

siteDefaults ==
  Obj([copyAssets |-> Bool(TRUE),
       usePrettyRefs |-> Bool(TRUE),
       siteNotesDir |-> Str("notes"),
       siteFaviconPath |-> Str("favicon.ico"),
       gh_edit_link |-> Bool(TRUE),
       gh_edit_link_text |-> Str("Edit this page on GitHub"),
       gh_edit_branch |-> Str("main"),
       gh_root |-> Str("docs/"),
       gh_edit_view_mode |-> Str("edit"),
       writeStubs |-> Bool(TRUE),
       description |-> Str("Personal knowledge space")])

\* DendronError.createFromStatus({status, message})
DendronError(status, message) ==
  Obj([name |-> Str("DendronError"), status |-> Str(status), message |-> Str(message)])

\* A plausible slip: the dev placeholder is used in every stage.
cleanSiteConfigAlwaysPlaceholder(cfg, stage, SITE_URL) ==
  LET out      == Defaults(cfg, siteDefaults)
      siteUrl1 == IF Truthy(SITE_URL) THEN SITE_URL ELSE GetKey(out, "siteUrl")
      siteUrl2 == IF ~Truthy(siteUrl1) THEN Str("https://foo") ELSE siteUrl1
  IN IF ~Truthy(GetKey(out, "siteRootDir")) THEN
       [threw |-> TRUE, error |-> Str("siteRootDir is undefined"),
        ret |-> Undefined, config |-> out]
     ELSE IF size(GetKey(out, "siteHierarchies")) < 1 THEN
       [threw |-> TRUE,
        error |-> DendronError("INVALID_CONFIG",
                               "siteHiearchies must have at least one hiearchy"),
        ret |-> Undefined, config |-> out]
     ELSE
       [threw |-> FALSE, error |-> Undefined,
        ret |-> Spread(out, Obj([siteIndex |-> getSiteIndex(out),
                                 siteUrl |-> siteUrl2])),
        config |-> out]

\* DConfig.cleanSiteConfig(config) run in stage getStage() with the environment
\* variable SITE_URL (Undefined when it is not in the environment).
cleanSiteConfig(cfg, stage, SITE_URL) ==
  LET out      == Defaults(cfg, siteDefaults)
      siteUrl1 == IF Truthy(SITE_URL) THEN SITE_URL ELSE GetKey(out, "siteUrl")
      siteUrl2 == IF ~Truthy(siteUrl1) /\ stage = "dev"
                  THEN Str("https://foo") ELSE siteUrl1
  IN IF ~Truthy(GetKey(out, "siteRootDir")) THEN
       [threw |-> TRUE, error |-> Str("siteRootDir is undefined"),
        ret |-> Undefined, config |-> out]
     ELSE IF ~Truthy(siteUrl2) THEN
       [threw |-> TRUE,
        error |-> DendronError("INVALID_CONFIG",
                               "siteUrl is undefined. See https://dendron.so/notes/f2ed8639-a604-4a9d-b76c-41e205fb8713.html#siteurl for more details"),
        ret |-> Undefined, config |-> out]
     ELSE IF size(GetKey(out, "siteHierarchies")) < 1 THEN
       [threw |-> TRUE,
        error |-> DendronError("INVALID_CONFIG",
                               "siteHiearchies must have at least one hiearchy"),
        ret |-> Undefined, config |-> out]
     ELSE
       [threw |-> FALSE, error |-> Undefined,
        ret |-> Spread(out, Obj([siteIndex |-> getSiteIndex(out),
                                 siteUrl |-> siteUrl2])),
        config |-> out]

---------------------------------------------------------------------------
(* Bounds and inputs *)

\* The longest hook list addToConfig is asked to extend.
MaxHooks == 2

\* A version number that is neither 1, 2 nor 3.
OtherVersion == 4

Versions == {Undefined, Num(1), Num(2), Num(3), Num(OtherVersion)}

HookIds == {Str("h1"), Str("h2")}

HookEntry(id) == Obj([id |-> id, type |-> Str("js")])

Paths ==
  DOMAIN requiredPathsMap \cup
  { <<"dev", "someUnknownFlag">>,
    <<"commands", "lookup", "note", "leaveTrace">>,
    <<"workspace", "journal", "firstDayOfWeek">> }

PropKeys == {"journal", "lookupConfirmVaultOnCreate", "hooks"}

DefaultsArgs ==
  { Undefined,
    Obj([defaultInsertHierarchy |-> Str("tpl"), version |-> Num(3)]) }

BaseSite ==
  Obj([siteHierarchies |-> Arr(<<Str("root")>>), siteRootDir |-> Str("docs")])

\* A file that sets nothing but the site.
BareFile == Obj([site |-> BaseSite])

\* A file in the flat, pre-migration vocabulary; insertNoteLink is given with
\* an empty YAML value, which reads as null.
LegacyFile ==
  Obj([site |-> BaseSite,
       journal |-> Obj([name |-> Str("j1"), dailyDomain |-> Str("daily")]),
       vaults |-> Arr(<<Obj([fsPath |-> Str("vault")])>>),
       randomNote |-> Obj([include |-> Str("alpha")]),
       insertNoteLink |-> Null])

\* A file in the current vocabulary, some of whose values are falsy: an empty
\* string, a null (an empty YAML value), false and 0.
NestedFile ==
  Obj([site |-> BaseSite,
       commands |->
         Obj([lookup |-> Obj([note |-> Obj([selectionMode |-> Str("none"),
                                            leaveTrace |-> Bool(FALSE)])]),
              insertNote |-> Obj([initialValue |-> Str("")]),
              insertNoteLink |-> Null]),
       workspace |->
         Obj([journal |-> Obj([name |-> Str("j3"), firstDayOfWeek |-> Num(0)]),
              vaults |-> Arr(<<>>)])])

WithVersion(doc, version) ==
  IF IsUndefined(version) THEN doc ELSE SetKey(doc, "version", version)

InitFiles ==
  {Undefined} \cup
  { WithVersion(doc, v) : doc \in {BareFile, LegacyFile, NestedFile}, v \in Versions }

\* The files a session starts from: a fresh root, and one file of each shape.
SessionFiles ==
  { Undefined,
    WithVersion(LegacyFile, Num(1)),
    WithVersion(BareFile, Num(2)),
    WithVersion(NestedFile, Num(3)) }

\* The hook ids a session registers.
SessionHookIds == {Str("h1")}

\* The configs handed to the resolver and to the hook-list editor: every file
\* read raw, and every file read through getOrCreate.
InputConfigs ==
  { getRaw(f) : f \in InitFiles \ {Undefined} } \cup
  { getOrCreate(f, Undefined).ret : f \in InitFiles }

---------------------------------------------------------------------------
(* The calls a session makes on one workspace root *)

NoCall ==
  [op |-> "none", path |-> <<>>, key |-> "", arg |-> Undefined,
   pre |-> Undefined, preFile |-> Undefined, ret |-> Undefined,
   threw |-> FALSE, prior |-> Undefined, now |-> NoTime]

\* The directory holds no backup.
NoBackups == [n \in {} |-> Undefined]

SiteIdle ==
  [pc |-> "idle", config |-> Undefined, stage |-> "", SITE_URL |-> Undefined,
   out |-> Undefined, threw |-> FALSE, error |-> Undefined, ret |-> Undefined]

Init ==
  /\ file \in SessionFiles
  /\ config = Undefined
  /\ last = NoCall
  /\ site = SiteIdle
  /\ backups = NoBackups

\* The config a getOrCreate returned when it was the previous call and it
\* created the file; Undefined otherwise.
JustCreated ==
  IF last.op = "getOrCreate" /\ IsUndefined(last.preFile) THEN last.ret ELSE Undefined

GetOrCreate(defaults) ==
  LET r == getOrCreate(file, defaults) IN
  /\ config' = r.ret
  /\ file' = r.file
  /\ last' = [NoCall EXCEPT !.op = "getOrCreate", !.arg = defaults,
                            !.pre = config, !.preFile = file, !.ret = r.ret,
                            !.prior = JustCreated]
  /\ UNCHANGED <<site, backups>>

GetRaw ==
  /\ ~IsUndefined(file)
  /\ config' = getRaw(file)
  /\ last' = [NoCall EXCEPT !.op = "getRaw", !.pre = config, !.preFile = file,
                            !.ret = getRaw(file)]
  /\ UNCHANGED <<file, site, backups>>

WriteConfig ==
  /\ ~IsUndefined(config)
  /\ file' = writeConfig(config)
  /\ last' = [NoCall EXCEPT !.op = "writeConfig", !.pre = config, !.preFile = file]
  /\ UNCHANGED <<config, site, backups>>

GenDefaultConfig(version) ==
  /\ last' = [NoCall EXCEPT !.op = "genDefaultConfig", !.arg = version,
                            !.pre = config, !.preFile = file,
                            !.ret = genDefaultConfig(version)]
  /\ UNCHANGED <<file, config, site, backups>>

GetProp(key) ==
  LET r == getProp(config, key) IN
  /\ ~IsUndefined(config)
  /\ config' = r.config
  /\ last' = [NoCall EXCEPT !.op = "getProp", !.key = key, !.pre = config,
                            !.preFile = file, !.ret = r.ret]
  /\ UNCHANGED <<file, site, backups>>

GetConfig(path) ==
  LET r == getConfig(config, path) IN
  /\ ~IsUndefined(config)
  /\ config' = r.config
  /\ last' = [NoCall EXCEPT !.op = "getConfig", !.path = path, !.pre = config,
                            !.preFile = file, !.ret = r.ret]
  /\ UNCHANGED <<file, site, backups>>

AddToConfig(hookType, hookEntry) ==
  LET r == addToConfig(config, hookType, hookEntry) IN
  /\ ~IsUndefined(config)
  /\ hooksThrows(config) \/ Len(hookList(config, hookType).a) < MaxHooks
  /\ config' = r.config
  /\ last' = [NoCall EXCEPT !.op = "addToConfig", !.key = hookType,
                            !.arg = hookEntry, !.pre = config, !.preFile = file,
                            !.ret = IF r.threw THEN Undefined ELSE r.config,
                            !.threw = r.threw]
  /\ UNCHANGED <<file, site, backups>>

RemoveFromConfig(hookType, hookId) ==
  LET r == removeFromConfig(config, hookType, hookId) IN
  /\ ~IsUndefined(config)
  /\ config' = r.config
  /\ last' = [NoCall EXCEPT !.op = "removeFromConfig", !.key = hookType,
                            !.arg = hookId, !.pre = config, !.preFile = file,
                            !.ret = IF r.threw THEN Undefined ELSE r.config,
                            !.threw = r.threw]
  /\ UNCHANGED <<file, site, backups>>

Next ==
  \/ \E d \in DefaultsArgs : GetOrCreate(d)
  \/ GetRaw
  \/ WriteConfig
  \/ \E v \in Versions : GenDefaultConfig(v)
  \/ \E k \in PropKeys : GetProp(k)
  \/ \E p \in Paths : GetConfig(p)
  \/ \E ty \in DHookType, id \in SessionHookIds : AddToConfig(ty, HookEntry(id))
  \/ \E ty \in DHookType, id \in SessionHookIds : RemoveFromConfig(ty, id)

Spec == Init /\ [][Next]_vars

---------------------------------------------------------------------------
(* The resolver and the default generator on every input config *)

InitResolver ==
  /\ file = Undefined
  /\ config \in InputConfigs
  /\ last = NoCall
  /\ site = SiteIdle
  /\ backups = NoBackups

NextResolver ==
  \/ \E v \in Versions : GenDefaultConfig(v)
  \/ \E k \in PropKeys : GetProp(k)
  \/ \E p \in Paths : GetConfig(p)

SpecResolver == InitResolver /\ [][NextResolver]_vars

---------------------------------------------------------------------------
(* The hook-list editor on every input config *)

NextHooks ==
  \/ \E ty \in DHookType, id \in HookIds : AddToConfig(ty, HookEntry(id))
  \/ \E ty \in DHookType, id \in HookIds : RemoveFromConfig(ty, id)

SpecHooks == InitResolver /\ [][NextHooks]_vars

---------------------------------------------------------------------------
(* Backups of the config file *)

\* The most backup files kept in the directory.
MaxBackups == 2

WsRoot == "/ws"

Infixes == {"", "foo"}

\* The moments a backup is taken at: 2024-01-02T03:04:05 and 2024-11-22T13:14:15,
\* at milliseconds of one, two and three digits.
Times ==
  { DateTime(2024, 1, 2, 3, 4, 5, ms) : ms \in {6, 45, 678} } \cup
  { DateTime(2024, 11, 22, 13, 14, 15, ms) : ms \in {0, 123} }

CreateBackup(infix, now) ==
  LET r == createBackup(file, backups, WsRoot, infix, now) IN
  /\ r.threw \/ r.name \in DOMAIN backups \/ Cardinality(DOMAIN backups) < MaxBackups
  /\ backups' = r.backups
  /\ last' = [NoCall EXCEPT !.op = "createBackup", !.key = infix, !.now = now,
                            !.pre = config, !.preFile = file, !.ret = r.ret,
                            !.threw = r.threw]
  /\ UNCHANGED <<file, config, site>>

InitBackup ==
  /\ file \in SessionFiles
  /\ config = Undefined
  /\ last = NoCall
  /\ site = SiteIdle
  /\ backups = NoBackups

NextBackup ==
  \/ \E d \in DefaultsArgs : GetOrCreate(d)
  \/ \E infix \in Infixes, now \in Times : CreateBackup(infix, now)

SpecBackup == InitBackup /\ [][NextBackup]_vars

---------------------------------------------------------------------------
(* A session on a version-3 workspace *)

\* The root-level fields of the older schemas that version 3 no longer has.
LegacyRootFields ==
  {"vaults", "journal", "scratch", "lookup", "lookupConfirmVaultOnCreate"}

\* Version-3 files without any root-level legacy field.
V3Files == {WithVersion(BareFile, Num(3)), WithVersion(NestedFile, Num(3))}

InitV3 ==
  /\ file \in V3Files
  /\ config = Undefined
  /\ last = NoCall
  /\ site = SiteIdle
  /\ backups = NoBackups

NextV3 ==
  \/ \E d \in DefaultsArgs : GetOrCreate(d)
  \/ WriteConfig
  \/ \E k \in PropKeys : GetProp(k)
  \/ \E p \in Paths : GetConfig(p)
  \/ \E ty \in DHookType, id \in SessionHookIds : AddToConfig(ty, HookEntry(id))
  \/ \E ty \in DHookType, id \in SessionHookIds : RemoveFromConfig(ty, id)

SpecV3 == InitV3 /\ [][NextV3]_vars

---------------------------------------------------------------------------
(* The site-config normalizer on every input *)

Stages == {"dev", "prod", "test"}

SiteUrlEnv == {Undefined, Str(""), Str("https://env.example")}

SiteConfigs ==
  { Spread(Spread(Spread(rootDir, hierarchies), index), url) :
      rootDir     \in {EmptyObj, Obj([siteRootDir |-> Str("")]),
                       Obj([siteRootDir |-> Str("docs")])},
      hierarchies \in {EmptyObj, Obj([siteHierarchies |-> Arr(<<>>)]),
                       Obj([siteHierarchies |-> Arr(<<Str("root")>>)]),
                       Obj([siteHierarchies |-> Arr(<<Str("a"), Str("b")>>)])},
      index       \in {EmptyObj, Obj([siteIndex |-> Str("")]),
                       Obj([siteIndex |-> Str("home")])},
      url         \in {EmptyObj, Obj([siteUrl |-> Str("")]),
                       Obj([siteUrl |-> Str("https://site.example")])} }

InitSite ==
  /\ file = Undefined
  /\ config = Undefined
  /\ last = NoCall
  /\ backups = NoBackups
  /\ \E c \in SiteConfigs, st \in Stages, env \in SiteUrlEnv :
       site = [SiteIdle EXCEPT !.pc = "call", !.config = c, !.stage = st,
                               !.SITE_URL = env]

CleanSiteConfig ==
  LET r == cleanSiteConfig(site.config, site.stage, site.SITE_URL) IN
  /\ site.pc = "call"
  /\ site' = [site EXCEPT !.pc = "done", !.out = r.config, !.threw = r.threw,
                          !.error = r.error, !.ret = r.ret]
  /\ UNCHANGED <<file, config, last, backups>>

NextSite == CleanSiteConfig

SpecSite == InitSite /\ [][NextSite]_vars

---------------------------------------------------------------------------
(* Properties of the resolver: SpecResolver *)

IsGetConfig == last.op = "getConfig"

PreVersion == GetKey(last.pre, "version")

\* What direct structural lookup of the path found on the config passed in.
Direct == Get(last.pre, last.path)

\* C1: whenever direct structural lookup of the path on the config finds a value
\* (anything other than undefined: false, 0, "" and null included), getConfig
\* returns exactly that value, for a config of any version.
C1_DirectLookupIsReturned ==
  (IsGetConfig /\ ~IsUndefined(Direct)) => last.ret = Direct

\* C2: for a config of version 1, 2 or 3 and a path of the Legacy Path Registry,
\* getConfig returns a concrete value, never undefined, also when the config
\* holds no value for the path or for its legacy key.
C2_RequiredPathAlwaysConcrete ==
  (/\ IsGetConfig
   /\ PreVersion \in {Num(1), Num(2), Num(3)}
   /\ isRequired(last.path))
  => ~IsUndefined(last.ret)

\* C3: for a config whose version is neither 2 nor 3 (1, another number, or
\* unset) on which direct lookup of a registry path finds nothing, getConfig
\* returns the config's own value of the mapped legacy top-level key when the
\* key is present, and otherwise that key's value in genDefaultConfig(1).
C3_LegacyFallback ==
  (/\ IsGetConfig
   /\ PreVersion \notin {Num(2), Num(3)}
   /\ isRequired(last.path)
   /\ IsUndefined(Direct))
  => LET legacyKey == requiredPathsMap[last.path] IN
     IF legacyKey \in DOMAIN last.pre.o
     THEN last.ret = last.pre.o[legacyKey]
     ELSE last.ret = GetKey(genDefaultConfig(Num(1)), legacyKey)

\* The spec's concrete case: a version-1 config with a root-level journal named
\* j1 and no workspace key, asked for workspace.journal, answered with that journal.
C3_Witness ==
  /\ IsGetConfig
  /\ PreVersion = Num(1)
  /\ last.path = <<"workspace", "journal">>
  /\ "workspace" \notin DOMAIN last.pre.o
  /\ GetKey(last.ret, "name") = Str("j1")

\* C4: for a config of version 2 (respectively 3) on which direct lookup of the
\* path finds nothing, getConfig returns the value at that path in
\* genDefaultConfig(2) (respectively genDefaultConfig(3)) when the path is in the
\* registry, and undefined when it is not.
C4_CurrentSchemaDefault ==
  (/\ IsGetConfig
   /\ PreVersion \in {Num(2), Num(3)}
   /\ IsUndefined(Direct))
  => IF last.path \in DOMAIN requiredPathsMap
     THEN last.ret = Get(genDefaultConfig(PreVersion), last.path)
     ELSE last.ret = Undefined

\* The spec's concrete case: a version-2 config with no commands.lookup, answered
\* with the lookup subtree of the version-2 defaults.
C4_Witness ==
  /\ IsGetConfig
  /\ PreVersion = Num(2)
  /\ last.path = <<"commands", "lookup">>
  /\ IsUndefined(Direct)
  /\ last.ret.t = "object"
  /\ last.ret = GetKey(genDefaultCommandConfig, "lookup")

\* C9: genDefaultConfig(v) has version v and the whole common block; versions 1
\* and 2 carry the root-level vaults, journal and scratch defaults, only version 1
\* carries lookupConfirmVaultOnCreate and lookup, versions 2 and 3 carry commands,
\* only version 3 carries workspace; an omitted or unsupported version gives the
\* version-1 result; and the call changes neither the caller's config nor the file.
C9_DefaultsPerVersion ==
  last.op = "genDefaultConfig" =>
    LET r   == last.ret
        eff == IF last.arg \in {Num(1), Num(2), Num(3)} THEN last.arg ELSE Num(1)
        has(k) == k \in DOMAIN r.o /\ ~IsUndefined(r.o[k])
    IN /\ r.t = "object"
       /\ GetKey(r, "version") = eff
       /\ \A k \in DOMAIN common.o : has(k) /\ r.o[k] = common.o[k]
       /\ \A k \in {"vaults", "journal", "scratch"} :
            /\ has(k) <=> eff \in {Num(1), Num(2)}
            /\ has(k) => r.o[k] = omittedFromV3.o[k]
       /\ \A k \in {"lookupConfirmVaultOnCreate", "lookup"} :
            /\ has(k) <=> eff = Num(1)
            /\ has(k) => r.o[k] = omittedFromV2.o[k]
       /\ has("commands") <=> eff \in {Num(2), Num(3)}
       /\ has("workspace") <=> eff = Num(3)
       /\ config = last.pre
       /\ file = last.preFile

\* genDefaultConfig(3) was called while the caller held a config, and returned a
\* config with a workspace and no root-level journal.
C9_Witness ==
  /\ last.op = "genDefaultConfig"
  /\ last.arg = Num(3)
  /\ last.pre.t = "object"
  /\ GetKey(last.ret, "workspace").t = "object"
  /\ "journal" \notin DOMAIN last.ret.o

\* C14: getConfig(config, path) is a pure read: for a config of any version and
\* any path, the config object passed in has the same fields and values after
\* the call as before it.
C14_GetConfigIsPureRead ==
  IsGetConfig => config = last.pre

---------------------------------------------------------------------------
(* Properties of the hook-list editor: SpecHooks *)

\* The hook list in the container of the config's version, read structurally:
\* workspace.hooks.<hookType> for version 3, hooks.<hookType> otherwise; the
\* empty list when the container or the list is absent.
ContainerPath(cfg) ==
  IF GetKey(cfg, "version") = Num(3) THEN <<"workspace", "hooks">> ELSE <<"hooks">>

OtherContainerPath(cfg) ==
  IF GetKey(cfg, "version") = Num(3) THEN <<"hooks">> ELSE <<"workspace", "hooks">>

ListIn(cfg, hookType) ==
  LET l == Get(cfg, ContainerPath(cfg) \o <<hookType>>) IN
  IF l.t = "array" THEN l.a ELSE <<>>

Removed == last.op = "removeFromConfig" /\ ~last.threw

Added == last.op = "addToConfig" /\ ~last.threw

\* C5: after removeFromConfig(config, hookType, hookId) the hook list written
\* back into the version's container holds no entry whose id is hookId, also
\* when several entries of the list shared that id.
C5_NoMatchingEntryLeft ==
  Removed =>
    \A i \in 1..Len(ListIn(config, last.key)) :
      GetKey(ListIn(config, last.key)[i], "id") # last.arg

\* C6: removeFromConfig removes only the matching entries: the list afterwards
\* is the list before without the entries whose id is hookId, the others in
\* their order and none added.
C6_OnlyMatchingEntriesRemoved ==
  Removed =>
    ListIn(config, last.key) =
      SelectSeq(ListIn(last.pre, last.key), LAMBDA e : GetKey(e, "id") # last.arg)

---------------------------------------------------------------------------
(* Properties of the config store: Spec *)

\* C8: getOrCreate writes the file only when there is none, and returns the
\* provisional config (defaults overridden by genDefaultConfig()) with every
\* top-level key of the on-disk file replacing the provisional value wholesale;
\* the second of two successive calls on a fresh root returns a config that
\* agrees with the first on every field of genDefaultConfig() and leaves the
\* file as the first call wrote it.
C8_GetOrCreate ==
  last.op = "getOrCreate" =>
    LET gen  == genDefaultConfig(Undefined).o
        dflt == IF last.arg.t = "object" THEN last.arg.o ELSE [k \in {} |-> Undefined]
        disk == IF last.preFile.t = "object" THEN last.preFile.o
                ELSE [k \in {} |-> Undefined]
    IN /\ ~IsUndefined(last.preFile) => file = last.preFile
       /\ IsUndefined(last.preFile) =>
            /\ file.t = "object"
            /\ \A k \in DOMAIN gen : GetKey(file, k) = gen[k]
       /\ config = last.ret
       /\ DOMAIN last.ret.o = DOMAIN dflt \cup DOMAIN gen \cup DOMAIN disk
       /\ \A k \in DOMAIN last.ret.o :
            last.ret.o[k] = IF k \in DOMAIN disk THEN disk[k]
                            ELSE IF k \in DOMAIN gen THEN gen[k]
                            ELSE dflt[k]
       /\ ~IsUndefined(last.prior) =>
            /\ \A k \in DOMAIN gen : GetKey(last.ret, k) = GetKey(last.prior, k)
            /\ file = last.preFile

\* The second of two successive getOrCreate calls on a fresh root, made with
\* other defaults than the first.
C8_Witness ==
  /\ last.op = "getOrCreate"
  /\ ~IsUndefined(last.prior)
  /\ last.arg.t = "object"
  /\ "defaultInsertHierarchy" \notin DOMAIN last.prior.o

---------------------------------------------------------------------------
(* Properties of the site-config normalizer: SpecSite *)

SiteDone == site.pc = "done"

\* The fields of the site config passed in.  A field counts as given when it
\* holds a non-empty value, and SITE_URL as set when it is non-empty.
InRootDir     == GetKey(site.config, "siteRootDir")
InHierarchies == GetKey(site.config, "siteHierarchies")
InIndex       == GetKey(site.config, "siteIndex")
InUrl         == GetKey(site.config, "siteUrl")
EnvSet        == ~IsUndefined(site.SITE_URL) /\ site.SITE_URL # Str("")
Given(v)      == ~IsUndefined(v) /\ v # Str("")
NoHierarchy   == InHierarchies.t # "array" \/ InHierarchies.a = <<>>

\* C10: cleanSiteConfig fails for every site config with empty siteHierarchies,
\* whatever the stage and SITE_URL; with a siteRootDir, at least one hierarchy
\* and no siteUrl it fails exactly when the stage is not dev and SITE_URL is not
\* set; when it succeeds, siteUrl is SITE_URL if set, else the configured
\* siteUrl, else the dev placeholder, and siteIndex is the explicit siteIndex
\* or the first hierarchy.
C10_SiteValidation ==
  SiteDone =>
    /\ NoHierarchy => site.threw
    /\ (Given(InRootDir) /\ ~NoHierarchy /\ ~Given(InUrl)) =>
         (site.threw <=> (site.stage # "dev" /\ ~EnvSet))
    /\ ~site.threw =>
         /\ GetKey(site.ret, "siteUrl") =
              IF EnvSet THEN site.SITE_URL
              ELSE IF Given(InUrl) THEN InUrl
              ELSE Str("https://foo")
         /\ GetKey(site.ret, "siteIndex") =
              IF Given(InIndex) THEN InIndex ELSE InHierarchies.a[1]

\* A config with a siteRootDir, hierarchies and no siteUrl or siteIndex, cleaned
\* in the dev stage without SITE_URL: the placeholder and the first hierarchy.
C10_Witness ==
  /\ SiteDone
  /\ ~site.threw
  /\ site.stage = "dev"
  /\ IsUndefined(site.SITE_URL)
  /\ IsUndefined(InUrl)
  /\ IsUndefined(InIndex)
  /\ GetKey(site.ret, "siteUrl") = Str("https://foo")
  /\ GetKey(site.ret, "siteIndex") = Str("a")

\* C11: every failure of cleanSiteConfig (absent siteRootDir, unresolvable
\* siteUrl outside the dev stage, empty siteHierarchies) is a structured error
\* that carries the status code INVALID_CONFIG and a human-readable message.
C11_FailuresAreStructured ==
  (SiteDone /\ site.threw) =>
    /\ site.error.t = "object"
    /\ GetKey(site.error, "status") = Str("INVALID_CONFIG")
    /\ GetKey(site.error, "message").t = "string"

---------------------------------------------------------------------------
(* Properties of createBackup: SpecBackup *)

BackedUp == last.op = "createBackup" /\ ~last.threw

\* The timestamp the claim describes: year.month.day.hour-minute-second followed
\* by the millisecond written with three digits.
ThreeDigitStamp(dt) ==
  padStart(ToString(dt.year), 4) \o "." \o padStart(ToString(dt.month), 2) \o "." \o
  padStart(ToString(dt.day), 2) \o "." \o padStart(ToString(dt.hour), 2) \o
  padStart(ToString(dt.minute), 2) \o padStart(ToString(dt.second), 2) \o
  padStart(ToString(dt.millisecond), 3)

\* C12: createBackup(root, infix) copies the current config file to a file beside
\* it and returns that path; the name is "dendron." + timestamp + "." + infix +
\* ".yml" for a non-empty infix and "dendron." + timestamp + ".yml" for an empty
\* one, the timestamp ending in the millisecond written with three digits
\* (2024-01-02T03:04:05.006 gives dendron.2024.01.02.030405006.foo.yml).
C12_BackupName ==
  BackedUp =>
    LET name == IF last.key # ""
                THEN "dendron." \o ThreeDigitStamp(last.now) \o "." \o last.key \o ".yml"
                ELSE "dendron." \o ThreeDigitStamp(last.now) \o ".yml"
    IN /\ last.ret = Str(WsRoot \o "/" \o name)
       /\ name \in DOMAIN backups
       /\ backups[name] = file
       /\ file = last.preFile

---------------------------------------------------------------------------
(* Properties of a version-3 session: SpecV3 *)

NoLegacyRoot(doc) ==
  doc.t = "object" => DOMAIN doc.o \cap LegacyRootFields = {}

\* C13: starting from a version-3 config file with no root-level legacy field
\* (vaults, journal, scratch, lookup, lookupConfirmVaultOnCreate), after any
\* sequence of getOrCreate, getProp, getConfig, addToConfig, removeFromConfig and
\* writeConfig, neither the in-memory config nor the file on disk has one.
C13_V3StaysFreeOfLegacyRoot ==
  /\ (config.t = "object" /\ GetKey(config, "version") = Num(3)) => NoLegacyRoot(config)
  /\ (file.t = "object" /\ GetKey(file, "version") = Num(3)) => NoLegacyRoot(file)

=============================================================================
